---- MODULE Spec2Model ----
(***************************************************************************)
(* A model of files-ingest (src/main.rs): resolution of the root paths,    *)
(* the walk / filter / read / render loop of main, and the pure text       *)
(* transformations of print_file and add_line_numbers.                     *)
(*                                                                         *)
(* Text is a sequence of one-character strings, so that substring search,  *)
(* replacement, splitting and padding are computed as the code computes    *)
(* them.  The NUL character is written "NUL", the backtick "BACKTICK", a   *)
(* character without a string escape by its code point, "U+000B".          *)
(***************************************************************************)
EXTENDS Integers, Sequences, FiniteSets, TLC

\* ---------------------------------------------------------------- bounds
MaxStdin == 2
MaxWalk == 3
MaxLinesLen == 10
MaxFenceLen == 5
MaxEscapeLen == 6

\* ------------------------------------------------------ program constants
\* static GLOBAL_INDEX: AtomicUsize = AtomicUsize::new(1)
GlobalIndexStart == 1
\* let mut backticks = "```".to_string()
FenceStart == 3
\* let padding = if num_lines == 0 { 1 } else { ... }
EmptyPadding == 1

\* ------------------------------------------------------------ text helpers
None == [some |-> FALSE, v |-> <<>>]
Some(x) == [some |-> TRUE, v |-> x]

\* pat occurs in s starting at position i
MatchAt(s, pat, i) ==
    /\ i + Len(pat) - 1 <= Len(s)
    /\ \A j \in 1..Len(pat) : s[i + j - 1] = pat[j]

\* str::contains
Contains(s, pat) == \E i \in 1..(Len(s) - Len(pat) + 1) : MatchAt(s, pat, i)

\* str::replace: non-overlapping matches, left to right
RECURSIVE ReplaceFrom(_, _, _, _)
ReplaceFrom(s, from, to, i) ==
    IF i > Len(s) THEN <<>>
    ELSE IF MatchAt(s, from, i) THEN to \o ReplaceFrom(s, from, to, i + Len(from))
    ELSE <<s[i]>> \o ReplaceFrom(s, from, to, i + 1)

Replace(s, from, to) == ReplaceFrom(s, from, to, 1)

Digit == <<"0", "1", "2", "3", "4", "5", "6", "7", "8", "9">>

\* usize::to_string, and the {} formatting of an integer
RECURSIVE Decimal(_)
Decimal(n) ==
    IF n < 10 THEN <<Digit[n + 1]>>
    ELSE Decimal(n \div 10) \o <<Digit[(n % 10) + 1]>>

RECURSIVE Repeat(_, _)
Repeat(c, n) == IF n <= 0 THEN <<>> ELSE <<c>> \o Repeat(c, n - 1)

UpperCase == <<"A", "B", "C", "D", "E", "F", "G", "H", "I", "J", "K", "L", "M",
               "N", "O", "P", "Q", "R", "S", "T", "U", "V", "W", "X", "Y", "Z">>
LowerCase == <<"a", "b", "c", "d", "e", "f", "g", "h", "i", "j", "k", "l", "m",
               "n", "o", "p", "q", "r", "s", "t", "u", "v", "w", "x", "y", "z">>

LowerChar(c) ==
    IF \E i \in 1..Len(UpperCase) : UpperCase[i] = c
    THEN LowerCase[CHOOSE i \in 1..Len(UpperCase) : UpperCase[i] = c]
    ELSE c

\* str::to_lowercase / the folding of eq_ignore_ascii_case, on ASCII text
ToLower(s) == [i \in 1..Len(s) |-> LowerChar(s[i])]

EqIgnoreAsciiCase(a, b) == ToLower(a) = ToLower(b)

\* ------------------------------------------------------------------ paths
\* index of the last occurrence of c in s, 0 when there is none
LastIndexOf(s, c) ==
    IF \E i \in 1..Len(s) : s[i] = c
    THEN CHOOSE i \in 1..Len(s) : s[i] = c /\ \A j \in (i + 1)..Len(s) : s[j] # c
    ELSE 0

\* Path::file_name, for paths without a trailing separator
FileName(path) ==
    LET name == SubSeq(path, LastIndexOf(path, "/") + 1, Len(path))
    IN  IF name = <<>> \/ name = <<".">> \/ name = <<".", ".">> THEN None ELSE Some(name)

\* Path::extension: the text after the last dot of the file name; none when
\* the name has no dot, or only a leading one
Extension(path) ==
    LET fn == FileName(path)
        d == LastIndexOf(fn.v, ".")
    IN  IF ~fn.some \/ d <= 1 THEN None
        ELSE Some(SubSeq(fn.v, d + 1, Len(fn.v)))

\* what is left of a path once leading separators and "." components are
\* dropped (Components::as_path after the prefix was consumed)
RECURSIVE TrimLeft(_)
TrimLeft(p) ==
    IF p # <<>> /\ Head(p) = "/" THEN TrimLeft(Tail(p))
    ELSE IF p = <<".">> THEN <<>>
    ELSE IF Len(p) >= 2 /\ p[1] = "." /\ p[2] = "/" THEN TrimLeft(SubSeq(p, 3, Len(p)))
    ELSE p

\* path.strip_prefix(".").unwrap_or(path).display()
DisplayPath(path) ==
    IF path = <<".">> \/ (Len(path) >= 2 /\ path[1] = "." /\ path[2] = "/")
    THEN TrimLeft(Tail(path))
    ELSE path

\* ------------------------------------------------- extension -> language
EXT_TO_LANG ==
    << <<<<"p", "y">>, <<"p", "y", "t", "h", "o", "n">>>>, <<<<"r", "s">>, <<"r", "u", "s", "t">>>>, <<<<"c">>, <<"c">>>>,
       <<<<"h">>, <<"c">>>>, <<<<"c", "p", "p">>, <<"c", "p", "p">>>>, <<<<"h", "p", "p">>, <<"c", "p", "p">>>>,
       <<<<"j", "a", "v", "a">>, <<"j", "a", "v", "a">>>>, <<<<"j", "s">>, <<"j", "a", "v", "a", "s", "c", "r", "i", "p", "t">>>>,
       <<<<"t", "s">>, <<"t", "y", "p", "e", "s", "c", "r", "i", "p", "t">>>>, <<<<"h", "t", "m", "l">>, <<"h", "t", "m", "l">>>>,
       <<<<"c", "s", "s">>, <<"c", "s", "s">>>>, <<<<"x", "m", "l">>, <<"x", "m", "l">>>>, <<<<"j", "s", "o", "n">>, <<"j", "s", "o", "n">>>>,
       <<<<"y", "a", "m", "l">>, <<"y", "a", "m", "l">>>>, <<<<"y", "m", "l">>, <<"y", "a", "m", "l">>>>, <<<<"s", "h">>, <<"b", "a", "s", "h">>>>,
       <<<<"r", "b">>, <<"r", "u", "b", "y">>>>, <<<<"m", "d">>, <<"m", "a", "r", "k", "d", "o", "w", "n">>>>, <<<<"t", "o", "m", "l">>, <<"t", "o", "m", "l">>>>,
       <<<<"g", "o">>, <<"g", "o">>>>, <<<<"p", "h", "p">>, <<"p", "h", "p">>>>, <<<<"s", "w", "i", "f", "t">>, <<"s", "w", "i", "f", "t">>>>,
       <<<<"k", "t">>, <<"k", "o", "t", "l", "i", "n">>>>, <<<<"s", "q", "l">>, <<"s", "q", "l">>>> >>

\* the language tag of print_file's markdown branch
Lang(path) ==
    LET ext == Extension(path)
        key == ToLower(ext.v)
    IN  IF ext.some /\ \E i \in 1..Len(EXT_TO_LANG) : EXT_TO_LANG[i][1] = key
        THEN EXT_TO_LANG[CHOOSE i \in 1..Len(EXT_TO_LANG) : EXT_TO_LANG[i][1] = key][2]
        ELSE <<>>

\* ------------------------------------------------------------ line numbers
StripCR(line) ==
    IF line # <<>> /\ line[Len(line)] = "\r" THEN SubSeq(line, 1, Len(line) - 1)
    ELSE line

\* str::lines: pieces ended by "\n" (a "\r" before it is dropped too); a last
\* piece without terminator is a line only when it is not empty
RECURSIVE LinesFrom(_, _, _)
LinesFrom(s, i, cur) ==
    IF i > Len(s) THEN (IF cur = <<>> THEN <<>> ELSE <<cur>>)
    ELSE IF s[i] = "\n" THEN <<StripCR(cur)>> \o LinesFrom(s, i + 1, <<>>)
    ELSE LinesFrom(s, i + 1, Append(cur, s[i]))

Lines(content) == LinesFrom(content, 1, <<>>)

\* [String]::join
RECURSIVE Join(_, _)
Join(parts, sep) ==
    IF parts = <<>> THEN <<>>
    ELSE IF Len(parts) = 1 THEN parts[1]
    ELSE parts[1] \o sep \o Join(Tail(parts), sep)

\* format!("{:<width$}", n): the number, then spaces up to the width
PadNumber(n, width) == Decimal(n) \o Repeat(" ", width - Len(Decimal(n)))

\* format!("{:<width$}  {}", i + 1, line, width = padding)
NumberedLine(i, line, padding) == PadNumber(i, padding) \o <<" ", " ">> \o line

add_line_numbers(content) ==
    LET lines == Lines(content)
        num_lines == Len(lines)
        padding == IF num_lines = 0 THEN EmptyPadding ELSE Len(Decimal(num_lines))
    IN  Join([i \in 1..num_lines |-> NumberedLine(i, lines[i], padding)], <<"\n">>)

\* ------------------------------------------------------------- print_file
\* one writeln! call: the statement that wrote it and the text it wrote,
\* with the line feed writeln! adds
Line(tag, text) == [tag |-> tag, text |-> text \o <<"\n">>]

\* the bytes a sequence of writes leaves in the output
RECURSIVE Bytes(_)
Bytes(ws) == IF ws = <<>> THEN <<>> ELSE Head(ws).text \o Bytes(Tail(ws))

EscapeWrongOrder(s) ==
    Replace(Replace(Replace(s, <<"<">>, <<"&", "l", "t", ";">>), <<">">>, <<"&", "g", "t", ";">>), <<"&">>, <<"&", "a", "m", "p", ";">>)

\* .replace('&', "&amp;").replace('<', "&lt;").replace('>', "&gt;")
Escape(s) ==
    Replace(Replace(Replace(s, <<"&">>, <<"&", "a", "m", "p", ";">>), <<"<">>, <<"&", "l", "t", ";">>), <<">">>, <<"&", "g", "t", ";">>)

\* n backtick characters
Backticks(n) == Repeat("BACKTICK", n)

FenceFixed(s, n) == Backticks(n)

\* while processed_content.contains(&backticks) { backticks.push(..) }
RECURSIVE GrowFence(_, _)
GrowFence(s, n) ==
    IF Contains(s, Backticks(n)) THEN GrowFence(s, n + 1) ELSE Backticks(n)

Fence(s) == GrowFence(s, FenceStart)

CxmlFormat(display_path, processed, index) ==
    << Line("document", <<"<", "d", "o", "c", "u", "m", "e", "n", "t", " ", "i", "n", "d", "e", "x", "=", "\"">> \o Decimal(index) \o <<"\"", ">">>),
       Line("source", <<"<", "s", "o", "u", "r", "c", "e", ">">> \o display_path \o <<"<", "/", "s", "o", "u", "r", "c", "e", ">">>),
       Line("document_content", <<"<", "d", "o", "c", "u", "m", "e", "n", "t", "_", "c", "o", "n", "t", "e", "n", "t", ">">>),
       Line("content", Escape(processed)),
       Line("document_content_end", <<"<", "/", "d", "o", "c", "u", "m", "e", "n", "t", "_", "c", "o", "n", "t", "e", "n", "t", ">">>),
       Line("document_end", <<"<", "/", "d", "o", "c", "u", "m", "e", "n", "t", ">">>) >>

MarkdownFormat(path, display_path, processed) ==
    << Line("path", display_path),
       Line("fence", Fence(processed) \o Lang(path)),
       Line("content", processed),
       Line("fence_end", Fence(processed)),
       Line("blank", <<>>) >>

DefaultFormat(display_path, processed) ==
    << Line("path", display_path),
       Line("rule", <<"-", "-", "-">>),
       Line("content", processed),
       Line("rule_end", <<"-", "-", "-">>),
       Line("blank", <<>>) >>

\* the writes of print_file; index is the value fetch_add returned
print_file(path, content, cxml, markdown, line_numbers, index) ==
    LET display_path == DisplayPath(path)
        processed == IF line_numbers THEN add_line_numbers(content) ELSE content
    IN  IF cxml THEN CxmlFormat(display_path, processed, index)
        ELSE IF markdown THEN MarkdownFormat(path, display_path, processed)
        ELSE DefaultFormat(display_path, processed)

FetchAddStuck(counter) == counter

\* GLOBAL_INDEX.fetch_add(1, Ordering::SeqCst): the value stored
FetchAdd(counter) == counter + 1

\* --------------------------------------------------- should_process_entry
ExtensionAllowed(path, extensions) ==
    LET ext == Extension(path)
    IN  /\ ext.some
        /\ \E i \in 1..Len(extensions) : EqIgnoreAsciiCase(ext.v, extensions[i])

\* the condition of the innermost if of should_process_entry:
\* ignore_patterns.iter().any(|pattern| file_name.contains(pattern))
NameContainsPattern(path, patterns) ==
    LET fn == FileName(path)
    IN  /\ fn.some
        /\ \E i \in 1..Len(patterns) : Contains(fn.v, patterns[i])

should_process_entry(entry, c) ==
    IF ~entry.is_file THEN FALSE
    ELSE IF c.extensions # <<>> /\ ~ExtensionAllowed(entry.path, c.extensions) THEN FALSE
    ELSE IF /\ c.ignore_files_only
            /\ c.ignore_patterns # <<>>
            /\ NameContainsPattern(entry.path, c.ignore_patterns)
         THEN TRUE    \* the body of the if is empty: its return is commented out
    ELSE TRUE

\* -------------------------------------------------- read_paths_from_stdin
\* the characters with the Unicode property White_Space, which str::trim
\* strips; those without a string escape are written by their code point
WhiteSpace ==
    { "\t", "\n", "U+000B", "\f", "\r", " ", "U+0085", "U+00A0", "U+1680",
      "U+2000", "U+2001", "U+2002", "U+2003", "U+2004", "U+2005", "U+2006",
      "U+2007", "U+2008", "U+2009", "U+200A", "U+2028", "U+2029", "U+202F",
      "U+205F", "U+3000" }

IsWhitespace(c) == c \in WhiteSpace

NoTrim(s) == s

\* str::trim
RECURSIVE Trim(_)
Trim(s) ==
    IF s = <<>> THEN s
    ELSE IF IsWhitespace(Head(s)) THEN Trim(Tail(s))
    ELSE IF IsWhitespace(s[Len(s)]) THEN Trim(SubSeq(s, 1, Len(s) - 1))
    ELSE s

\* str::split(char): the pieces between separators, empty ones included
RECURSIVE SplitFrom(_, _, _, _)
SplitFrom(s, sep, i, cur) ==
    IF i > Len(s) THEN <<cur>>
    ELSE IF s[i] = sep THEN <<cur>> \o SplitFrom(s, sep, i + 1, <<>>)
    ELSE SplitFrom(s, sep, i + 1, Append(cur, s[i]))

Split(s, sep) == SplitFrom(s, sep, 1, <<>>)

RECURSIVE NonEmptyTrimmed(_)
NonEmptyTrimmed(pieces) ==
    IF pieces = <<>> THEN <<>>
    ELSE (IF Trim(Head(pieces)) = <<>> THEN <<>> ELSE <<Trim(Head(pieces))>>)
         \o NonEmptyTrimmed(Tail(pieces))

\* the paths read_paths_from_stdin pushes; input is [tty, content]
read_paths_from_stdin(input, null_separator) ==
    IF input.tty THEN <<>>
    ELSE NonEmptyTrimmed(Split(input.content, IF null_separator THEN "NUL" ELSE "\n"))

\* ------------------------------------------------------------ environment
\* an entry: a directory, a readable file, a file that is not UTF-8 or a
\* file the process has no permission on
Entry(path, is_file, read, content) ==
    [ok |-> TRUE, path |-> path, is_file |-> is_file, read |-> read, content |-> content]

\* The file system at the start of a run, paths relative to the current
\* directory: two files and the directory d, which holds two files.
Tree ==
    { Entry(<<".">>, FALSE, "Ok", <<>>),
      Entry(<<"a", ".", "t", "x", "t">>, TRUE, "Ok", <<"h", "e", "l", "l", "o", "\n">>),
      Entry(<<"b", "i", "n">>, TRUE, "InvalidData", <<>>),
      Entry(<<"d">>, FALSE, "Ok", <<>>),
      Entry(<<"d", "/", "l", "o", "g", ".", "R", "S">>, TRUE, "Ok", <<"x", "<", "&", ">", "\n", "y">>),
      Entry(<<"d", "/", "k", ".", "r", "s">>, TRUE, "PermissionDenied", <<>>) }

\* a relative path without its leading "./"; the current directory is "."
Normal(path) == IF DisplayPath(path) = <<>> THEN <<".">> ELSE DisplayPath(path)

IsDirectory(path) == \E e \in Tree : ~e.is_file /\ e.path = Normal(path)

IsFile(path) == \E e \in Tree : e.is_file /\ e.path = Normal(path)

\* Path::exists
Exists(path) == IsDirectory(path) \/ IsFile(path)

\* File::create: fails on a directory, on a file the process may not write,
\* and when the directory the file is to be in does not exist
CanCreate(path) ==
    LET slash == LastIndexOf(path, "/")
        parent == IF slash = 0 THEN <<".">> ELSE SubSeq(path, 1, slash - 1)
    IN  /\ FileName(path).some
        /\ ~IsDirectory(path)
        /\ IsDirectory(parent)
        /\ ~\E e \in Tree : /\ e.is_file
                            /\ e.path = Normal(path)
                            /\ e.read = "PermissionDenied"

\* The file system once File::create(created) has run: the file exists and
\* is empty.  What main writes stays in the BufWriter (8 KiB) until the
\* flush at the end, so a read during the walk finds the file empty.
FileSystem(created) ==
    IF ~created.some THEN Tree
    ELSE {e \in Tree : e.path # Normal(created.v)}
            \cup {Entry(Normal(created.v), TRUE, "Ok", <<>>)}

\* an Err item of the walk iterator
WalkErr == [ok |-> FALSE, path |-> <<>>, is_file |-> FALSE, read |-> "Ok", content |-> <<>>]

\* the entry is the root or lies below it, at any depth
Under(path, root) ==
    root = <<".">> \/ path = root \/ MatchAt(path, root \o <<"/">>, 1)

\* the path of an entry as the walk of a root spells it: the root as it was
\* given, then the path from the root to the entry
Spelled(path, root) ==
    LET from == Normal(root)
        rest == IF path = from THEN <<>>
                ELSE IF from = <<".">> THEN path
                ELSE SubSeq(path, Len(from) + 2, Len(path))
    IN  IF rest = <<>> THEN root ELSE root \o <<"/">> \o rest

\* the items walker_builder.build() can yield for the given roots: every
\* entry at or below a root (the hidden-file and ignore rules may leave any
\* of them out), and errors
WalkItems(roots, created) ==
    {WalkErr} \cup
    { [x[1] EXCEPT !.path = Spelled(x[1].path, roots[x[2]])] :
        x \in {y \in FileSystem(created) \X (1..Len(roots)) :
                  Under(y[1].path, Normal(roots[y[2]]))} }

\* -------------------------------------------------------------- the inputs
ArgPathLists ==
    { <<>>, <<<<".">>>>, <<<<"d">>>>, <<<<"a", ".", "t", "x", "t">>, <<"d">>>>, <<<<"n", "o", "p", "e">>>>,
      <<<<".">>, <<"n", "o", "p", "e">>>>, <<<<"g", "o", "n", "e">>, <<"d">>, <<"n", "o", "p", "e">>>> }

ExtensionLists == { <<>>, <<<<"r", "s">>>> }

\* --ignore and --ignore-files-only
IgnoreOptions ==
    { [patterns |-> <<>>, files_only |-> FALSE],
      [patterns |-> <<<<"l", "o", "g">>>>, files_only |-> TRUE] }

OutputFiles == { None, Some(<<"o", "u", "t">>), Some(<<"n", "o", "p", "e", "/", "o", "u", "t">>), Some(<<"d">>) }

StdinAlphabet == {"d", " ", "\f", "\n", "NUL"}

RECURSIVE TextsUpTo(_, _)
TextsUpTo(alphabet, n) ==
    IF n = 0 THEN {<<>>}
    ELSE LET shorter == TextsUpTo(alphabet, n - 1)
         IN  shorter \cup {Append(t, c) : t \in shorter, c \in alphabet}

\* standard input: a terminal, a pipe with text, or a pipe whose bytes are
\* not UTF-8 (read_to_string fails)
Terminal == [tty |-> TRUE, readable |-> TRUE, content |-> <<>>]
StdinInputs ==
    {Terminal}
    \cup {[tty |-> FALSE, readable |-> FALSE, content |-> <<>>]}
    \cup {[tty |-> FALSE, readable |-> TRUE, content |-> t] : t \in TextsUpTo(StdinAlphabet, MaxStdin)}

MakeCli(paths, extensions, ignore, cxml, markdown, line_numbers, output_file, null_separator) ==
    [ paths |-> paths, extensions |-> extensions,
      ignore_patterns |-> ignore.patterns, ignore_files_only |-> ignore.files_only,
      cxml |-> cxml, markdown |-> markdown, line_numbers |-> line_numbers,
      output_file |-> output_file, null_separator |-> null_separator ]

\* ------------------------------------------------------------------ state
VARIABLES
    cli,            \* the parsed command line; cli.paths grows from stdin
    stdin,          \* what standard input is and holds
    pc,             \* where main is
    exit,           \* the result of main, once it returned
    writer,         \* "none" until the output is opened, then "stdout" / "file"
    out,            \* the writes made to the writer, in order (they succeed)
    stderr,         \* the diagnostics printed, in order
    GLOBAL_INDEX,   \* the CXML document counter
    walked,         \* the items the walk has yielded so far
    arg,            \* the text handed to a text transformation
    ret             \* what the transformation returned

vars == <<cli, stdin, pc, exit, writer, out, stderr, GLOBAL_INDEX, walked, arg, ret>>

Running == [kind |-> "Running", path |-> <<>>]
Ok == [kind |-> "Ok", path |-> <<>>]
IoError == [kind |-> "Io", path |-> <<>>]
PathNotFound(path) == [kind |-> "PathNotFound", path |-> path]

\* A run is given either path arguments, or none and a standard input to
\* read them from.  The options that act on walked entries only are varied
\* on the runs with path arguments.
Init ==
    /\ \E paths \in ArgPathLists, ext \in ExtensionLists, ign \in IgnoreOptions,
          cxml \in BOOLEAN, md \in BOOLEAN, ln \in BOOLEAN, o \in OutputFiles,
          nul \in BOOLEAN :
          /\ paths # <<>> => ~nul
          /\ paths = <<>> => (ext = <<>> /\ ign.patterns = <<>> /\ ~md /\ ~ln)
          /\ cli = MakeCli(paths, ext, ign, cxml, md, ln, o, nul)
    /\ stdin \in StdinInputs
    /\ cli.paths # <<>> => stdin = Terminal
    /\ pc = "resolve"
    /\ exit = Running
    /\ writer = "none"
    /\ out = <<>>
    /\ stderr = <<>>
    /\ GLOBAL_INDEX = GlobalIndexStart
    /\ walked = <<>>
    /\ arg = <<>>
    /\ ret = <<>>

\* the file File::create has made, if any
Created == IF writer = "file" THEN cli.output_file ELSE None

\* main returns: nothing more is written
Return(result) ==
    /\ pc' = "done"
    /\ exit' = result

\* ------------------------------------------------------------------- main
\* lines 123-132: paths given as arguments are used as they are
UseArguments ==
    /\ pc = "resolve"
    /\ cli.paths # <<>>
    /\ pc' = "validate"
    /\ UNCHANGED <<cli, stdin, exit, writer, out, stderr, GLOBAL_INDEX, walked, arg, ret>>

\* lines 123-132: no argument, the paths come from standard input
ReadStdin ==
    /\ pc = "resolve"
    /\ cli.paths = <<>>
    /\ IF ~stdin.tty /\ ~stdin.readable
       THEN /\ Return(IoError)
            /\ UNCHANGED <<cli, stderr>>
       ELSE LET paths == read_paths_from_stdin(stdin, cli.null_separator)
            IN  /\ cli' = [cli EXCEPT !.paths = paths]
                /\ IF paths = <<>>
                   THEN /\ stderr' = Append(stderr, "NoInputPaths")
                        /\ Return(Ok)
                   ELSE /\ pc' = "validate"
                        /\ UNCHANGED <<exit, stderr>>
    /\ UNCHANGED <<stdin, writer, out, GLOBAL_INDEX, walked, arg, ret>>

FirstMissingLast(paths) ==
    paths[CHOOSE i \in 1..Len(paths) :
            ~Exists(paths[i]) /\ \A j \in (i + 1)..Len(paths) : Exists(paths[j])]

\* the path at which the loop of lines 135-139 returns
FirstMissing(paths) ==
    paths[CHOOSE i \in 1..Len(paths) :
            ~Exists(paths[i]) /\ \A j \in 1..(i - 1) : Exists(paths[j])]

\* lines 134-139
ValidatePaths ==
    /\ pc = "validate"
    /\ IF \E i \in 1..Len(cli.paths) : ~Exists(cli.paths[i])
       THEN Return(PathNotFound(FirstMissing(cli.paths)))
       ELSE /\ pc' = "setup"
            /\ UNCHANGED exit
    /\ UNCHANGED <<cli, stdin, writer, out, stderr, GLOBAL_INDEX, walked, arg, ret>>

\* lines 151-155
OpeningTag(cxml) == IF cxml THEN <<Line("documents", <<"<", "d", "o", "c", "u", "m", "e", "n", "t", "s", ">">>)>> ELSE <<>>

ClosingTagAlways(cxml) == <<Line("documents_end", <<"<", "/", "d", "o", "c", "u", "m", "e", "n", "t", "s", ">">>)>>

\* lines 238-241
ClosingTag(cxml) == IF cxml THEN <<Line("documents_end", <<"<", "/", "d", "o", "c", "u", "m", "e", "n", "t", "s", ">">>)>> ELSE <<>>

\* lines 141-184: open the output, write the opening tag, build the walker
SetupWriter ==
    /\ pc = "setup"
    /\ IF cli.output_file.some /\ ~CanCreate(cli.output_file.v)
       THEN /\ Return(IoError)
            /\ UNCHANGED <<writer, out, stderr>>
       ELSE /\ writer' = IF cli.output_file.some THEN "file" ELSE "stdout"
            /\ out' = out \o OpeningTag(cli.cxml)
            /\ IF cli.paths = <<>>
               THEN /\ stderr' = Append(stderr, "NoValidPaths")
                    /\ Return(Ok)
               ELSE /\ pc' = "walk"
                    /\ UNCHANGED <<exit, stderr>>
    /\ UNCHANGED <<cli, stdin, GLOBAL_INDEX, walked, arg, ret>>

\* lines 231-234: the walk reports an error
WalkError ==
    /\ pc = "walk"
    /\ Len(walked) < MaxWalk
    /\ WalkErr \in WalkItems(cli.paths, Created)
    /\ walked' = Append(walked, WalkErr)
    /\ stderr' = Append(stderr, "WalkError")
    /\ UNCHANGED <<cli, stdin, pc, exit, writer, out, GLOBAL_INDEX, arg, ret>>

\* lines 192-194: the entry does not pass should_process_entry
WalkSkip ==
    /\ pc = "walk"
    /\ Len(walked) < MaxWalk
    /\ \E e \in WalkItems(cli.paths, Created) :
          /\ e.ok
          /\ ~should_process_entry(e, cli)
          /\ walked' = Append(walked, e)
    /\ UNCHANGED <<cli, stdin, pc, exit, writer, out, stderr, GLOBAL_INDEX, arg, ret>>

WalkUnreadableAborts ==
    /\ pc = "walk"
    /\ Len(walked) < MaxWalk
    /\ \E e \in WalkItems(cli.paths, Created) :
          /\ e.ok
          /\ should_process_entry(e, cli)
          /\ e.read # "Ok"
          /\ walked' = Append(walked, e)
    /\ Return(IoError)
    /\ UNCHANGED <<cli, stdin, writer, out, stderr, GLOBAL_INDEX, arg, ret>>

\* lines 208-228: fs::read_to_string fails
WalkUnreadable ==
    /\ pc = "walk"
    /\ Len(walked) < MaxWalk
    /\ \E e \in WalkItems(cli.paths, Created) :
          /\ e.ok
          /\ should_process_entry(e, cli)
          /\ e.read # "Ok"
          /\ walked' = Append(walked, e)
          /\ stderr' = Append(stderr, IF e.read = "InvalidData" THEN "NotUtf8" ELSE "ReadError")
    /\ UNCHANGED <<cli, stdin, pc, exit, writer, out, GLOBAL_INDEX, arg, ret>>

\* lines 197-207: the file is read and print_file writes it
WalkPrint ==
    /\ pc = "walk"
    /\ Len(walked) < MaxWalk
    /\ \E e \in WalkItems(cli.paths, Created) :
          /\ e.ok
          /\ should_process_entry(e, cli)
          /\ e.read = "Ok"
          /\ walked' = Append(walked, e)
          /\ out' = out \o print_file(e.path, e.content, cli.cxml, cli.markdown,
                                      cli.line_numbers, GLOBAL_INDEX)
    /\ GLOBAL_INDEX' = IF cli.cxml THEN FetchAdd(GLOBAL_INDEX) ELSE GLOBAL_INDEX
    /\ UNCHANGED <<cli, stdin, pc, exit, writer, stderr, arg, ret>>

\* lines 236-246: the walk is over; closing tag, flush, Ok
Finish ==
    /\ pc = "walk"
    /\ out' = out \o ClosingTag(cli.cxml)
    /\ Return(Ok)
    /\ UNCHANGED <<cli, stdin, writer, stderr, GLOBAL_INDEX, walked, arg, ret>>

Next ==
    \/ UseArguments
    \/ ReadStdin
    \/ ValidatePaths
    \/ SetupWriter
    \/ WalkError
    \/ WalkSkip
    \/ WalkUnreadable
    \/ WalkPrint
    \/ Finish

Spec == Init /\ [][Next]_vars

\* ------------------------------------------- the text transformations alone
\* A text is built character by character and handed to add_line_numbers or
\* to print_file; the rest of the state stays as main leaves it after setup.
Idle ==
    /\ stdin = Terminal
    /\ pc = "build"
    /\ exit = Running
    /\ writer = "stdout"
    /\ out = <<>>
    /\ stderr = <<>>
    /\ GLOBAL_INDEX = GlobalIndexStart
    /\ walked = <<>>
    /\ arg = <<>>
    /\ ret = <<>>

NoIgnore == [patterns |-> <<>>, files_only |-> FALSE]

LinesAlphabet == {"a", "\n", "\r"}

InitLines ==
    /\ cli = MakeCli(<<<<"f">>>>, <<>>, NoIgnore, FALSE, FALSE, TRUE, None, FALSE)
    /\ Idle

GrowLinesText ==
    /\ pc = "build"
    /\ Len(arg) < MaxLinesLen
    /\ \E c \in LinesAlphabet : arg' = Append(arg, c)
    /\ UNCHANGED <<cli, stdin, pc, exit, writer, out, stderr, GLOBAL_INDEX, walked, ret>>

CallAddLineNumbers ==
    /\ pc = "build"
    /\ ret' = add_line_numbers(arg)
    /\ pc' = "returned"
    /\ UNCHANGED <<cli, stdin, exit, writer, out, stderr, GLOBAL_INDEX, walked, arg>>

NextLines == GrowLinesText \/ CallAddLineNumbers

SpecLines == InitLines /\ [][NextLines]_vars

\* print_file on the text built, for the path and flags of cli
CallPrintFile ==
    /\ pc = "build"
    /\ out' = out \o print_file(cli.paths[1], arg, cli.cxml, cli.markdown,
                                cli.line_numbers, GLOBAL_INDEX)
    /\ GLOBAL_INDEX' = IF cli.cxml THEN FetchAdd(GLOBAL_INDEX) ELSE GLOBAL_INDEX
    /\ pc' = "returned"
    /\ UNCHANGED <<cli, stdin, exit, writer, stderr, walked, arg, ret>>

FenceAlphabet == {"BACKTICK", "a", "\n"}

InitFence ==
    /\ \E path \in {<<"a", ".", "p", "y">>, <<"n", "o", "t", "e", "s">>, <<".", "/", "m", ".", "R", "S">>}, ln \in BOOLEAN :
          cli = MakeCli(<<path>>, <<>>, NoIgnore, FALSE, TRUE, ln, None, FALSE)
    /\ Idle

GrowFenceText ==
    /\ pc = "build"
    /\ Len(arg) < MaxFenceLen
    /\ \E c \in FenceAlphabet : arg' = Append(arg, c)
    /\ UNCHANGED <<cli, stdin, pc, exit, writer, out, stderr, GLOBAL_INDEX, walked, ret>>

NextFence == GrowFenceText \/ CallPrintFile

SpecFence == InitFence /\ [][NextFence]_vars

\* the text grows by a special character, a letter, or the tail of an entity
EscapePieces == { <<"&">>, <<"<">>, <<">">>, <<"a">>, <<"a", "m", "p", ";">>, <<"l", "t", ";">>, <<"g", "t", ";">> }

InitEscape ==
    /\ \E md \in BOOLEAN, ln \in BOOLEAN :
          cli = MakeCli(<<<<"a", ".", "x", "m", "l">>>>, <<>>, NoIgnore, TRUE, md, ln, None, FALSE)
    /\ Idle

GrowEscapeText ==
    /\ pc = "build"
    /\ \E piece \in EscapePieces :
          /\ Len(arg) + Len(piece) <= MaxEscapeLen
          /\ arg' = arg \o piece
    /\ UNCHANGED <<cli, stdin, pc, exit, writer, out, stderr, GLOBAL_INDEX, walked, ret>>

NextEscape == GrowEscapeText \/ CallPrintFile

SpecEscape == InitEscape /\ [][NextEscape]_vars

\* ================================================================= claims
\* what the claims read off the state
WithTag(ws, tags) == SelectSeq(ws, LAMBDA w : w.tag \in tags)

\* the document start tags written, in output order
DocumentTags == WithTag(out, {"document"})

\* the walk has begun: the output was opened and the loop entered
WalkBegun == pc = "walk" \/ (pc = "done" /\ writer # "none")

\* the items of the walk that passed the filter and were read
IsRendered(item) == item.ok /\ should_process_entry(item, cli) /\ item.read = "Ok"
Rendered == SelectSeq(walked, IsRendered)
Skipped == SelectSeq(walked, LAMBDA item : ~IsRendered(item))

Processed(content) == IF cli.line_numbers THEN add_line_numbers(content) ELSE content

\* C1: in CXML format the k-th document start tag of the output carries the
\* index k, and the counter is its start value plus the number of documents
\* written, whatever was filtered out or skipped in between.
C1_IndexIsPosition ==
    cli.cxml =>
        /\ \A k \in 1..Len(DocumentTags) :
              DocumentTags[k].text = <<"<", "d", "o", "c", "u", "m", "e", "n", "t", " ", "i", "n", "d", "e", "x", "=", "\"">> \o Decimal(k) \o <<"\"", ">", "\n">>
        /\ Len(DocumentTags) = Len(Rendered)
        /\ GLOBAL_INDEX = GlobalIndexStart + Len(DocumentTags)

C1_Witness ==
    /\ cli.cxml
    /\ pc = "done"
    /\ Len(cli.paths) = 2
    /\ Len(DocumentTags) = 2
    /\ Len(walked) = 3
    /\ ~IsRendered(walked[2])

\* C2: in CXML format the opening wrapper tag is the first write and is
\* written once; no closing tag is written while the walk goes on; when the
\* walk is over the closing tag is the last write and is written once.  In
\* the other formats no wrapper tag is written.
C2_Envelope ==
    LET opens == Len(WithTag(out, {"documents"}))
        closes == Len(WithTag(out, {"documents_end"}))
    IN  /\ ~cli.cxml => (opens = 0 /\ closes = 0)
        /\ cli.cxml =>
              /\ opens <= 1 /\ closes <= 1
              /\ (WalkBegun \/ DocumentTags # <<>>) => (opens = 1 /\ out[1].tag = "documents")
              /\ pc # "done" => closes = 0
              /\ (pc = "done" /\ WalkBegun) =>
                    (closes = 1 /\ out[Len(out)].tag = "documents_end")

C2_Witness ==
    /\ cli.cxml
    /\ pc = "done"
    /\ Len(DocumentTags) >= 1
    /\ Skipped # <<>>
    /\ \E i \in 1..Len(walked) : walked[i].ok /\ walked[i].read = "InvalidData"
    /\ out[Len(out)].tag = "documents_end"

\* C3: when a resolved root path does not exist, main returns PathNotFound
\* with the first such path of the list, the output was never opened and
\* nothing was written.
C3_MissingPathIsFatal ==
    (pc \in {"validate", "setup", "walk", "done"}
        /\ \E i \in 1..Len(cli.paths) : ~Exists(cli.paths[i])) =>
        /\ pc \in {"validate", "done"}
        /\ writer = "none"
        /\ out = <<>>
        /\ pc = "done" =>
              /\ exit.kind = "PathNotFound"
              /\ \E i \in 1..Len(cli.paths) :
                    /\ exit.path = cli.paths[i]
                    /\ ~Exists(cli.paths[i])
                    /\ \A j \in 1..(i - 1) : Exists(cli.paths[j])

C3_Witness ==
    /\ pc = "done"
    /\ exit.kind = "PathNotFound"
    /\ Len(cli.paths) = 3
    /\ Exists(cli.paths[2])
    /\ exit.path = cli.paths[1]
    /\ cli.cxml
    /\ cli.output_file.some

\* C4: a walk error, a file that is not UTF-8 or a failed read leaves the
\* run going: at every moment of the walk the documents written are the
\* items that passed the filter and were read, in walk order, and a run that
\* entered the walk returns Ok.
C4_FailuresAreIsolated ==
    LET sources == WithTag(out, {"path", "source"})
        contents == WithTag(out, {"content"})
    IN  WalkBegun =>
        /\ Len(sources) = Len(Rendered)
        /\ Len(contents) = Len(Rendered)
        /\ \A k \in 1..Len(Rendered) :
              /\ sources[k].text =
                    IF cli.cxml
                    THEN <<"<", "s", "o", "u", "r", "c", "e", ">">> \o DisplayPath(Rendered[k].path) \o <<"<", "/", "s", "o", "u", "r", "c", "e", ">", "\n">>
                    ELSE DisplayPath(Rendered[k].path) \o <<"\n">>
              /\ contents[k].text =
                    (IF cli.cxml THEN Escape(Processed(Rendered[k].content))
                     ELSE Processed(Rendered[k].content)) \o <<"\n">>
        /\ pc = "done" => exit = Ok

C4_Witness ==
    /\ pc = "done"
    /\ exit = Ok
    /\ Len(walked) = 3
    /\ walked[1].ok /\ walked[1].read # "Ok" /\ should_process_entry(walked[1], cli)
    /\ ~walked[2].ok
    /\ IsRendered(walked[3])
    /\ Len(WithTag(out, {"content"})) = 1

\* C5: with no path argument and a standard input that is a terminal, or
\* holds nothing but separators and whitespace, main returns Ok, the output
\* was never opened and nothing was written.
C5_NoInputIsNoOp ==
    LET sep == IF cli.null_separator THEN "NUL" ELSE "\n"
        blank == \A i \in 1..Len(stdin.content) :
                    stdin.content[i] = sep \/ stdin.content[i] \in {" ", "\t", "\n", "\f", "\r"}
        no_input == \/ stdin.tty /\ cli.paths = <<>>
                    \/ ~stdin.tty /\ stdin.readable /\ blank
    IN  (pc \in {"validate", "setup", "walk", "done"} /\ no_input) =>
        /\ pc = "done"
        /\ exit = Ok
        /\ writer = "none"
        /\ out = <<>>

C5_Witness ==
    /\ pc = "done"
    /\ exit = Ok
    /\ ~stdin.tty
    /\ Len(stdin.content) = 2
    /\ stdin.content[1] # stdin.content[2]
    /\ cli.paths = <<>>
    /\ cli.cxml
    /\ cli.output_file.some
    /\ writer = "none"

DefaultFormatSelected == ~cli.cxml /\ ~cli.markdown /\ ~cli.line_numbers

\* the bytes of the k-th document written in default format (five writes each)
DefaultDocument(k) == Bytes(SubSeq(out, 5 * k - 4, 5 * k))

\* C6: in default format without line numbers a file is written as the line
\* of its display path, the line ---, its content, the line --- and an empty
\* line, nothing between the end of the content and the closing ---; a.txt
\* holding "hello\n" is written as "a.txt\n---\nhello\n---\n\n".
C6_DefaultFormatText ==
    (DefaultFormatSelected /\ WalkBegun) =>
        \A k \in 1..Len(Rendered) :
            LET p == DisplayPath(Rendered[k].path)
                c == Rendered[k].content
            IN  /\ (c # <<>> /\ c[Len(c)] = "\n") =>
                      DefaultDocument(k) = p \o <<"\n", "-", "-", "-", "\n">> \o c \o <<"-", "-", "-", "\n", "\n">>
                /\ (p = <<"a", ".", "t", "x", "t">> /\ c = <<"h", "e", "l", "l", "o", "\n">>) =>
                      DefaultDocument(k) = <<"a", ".", "t", "x", "t", "\n", "-", "-", "-", "\n", "h", "e", "l", "l", "o", "\n", "-", "-", "-", "\n", "\n">>

\* What the code writes instead: the content is always followed by a line
\* feed of its own, so a content that ends in a line feed is followed by an
\* empty line.
DefaultFormatAsWritten ==
    (DefaultFormatSelected /\ WalkBegun) =>
        \A k \in 1..Len(Rendered) :
            DefaultDocument(k) =
                DisplayPath(Rendered[k].path) \o <<"\n", "-", "-", "-", "\n">> \o Rendered[k].content
                    \o <<"\n", "-", "-", "-", "\n", "\n">>

\* the number right-justified: spaces up to the width, then the digits
RightJustified(n, width) == Repeat(" ", width - Len(Decimal(n))) \o Decimal(n)

\* C7: for a non-empty content of N lines add_line_numbers returns N lines,
\* line i being i right-justified to the width of N in digits, two spaces,
\* and the text of line i.
C7_RightJustifiedNumbers ==
    (pc = "returned" /\ arg # <<>>) =>
        LET lines == Lines(arg)
            N == Len(lines)
            numbered == Split(ret, "\n")
        IN  /\ Len(numbered) = N
            /\ \A i \in 1..N :
                  numbered[i] = RightJustified(i, Len(Decimal(N))) \o <<" ", " ">> \o lines[i]

\* the length of the longest run of backticks in s
LongestRun(s) ==
    CHOOSE k \in 0..Len(s) :
        /\ Contains(s, Backticks(k))
        /\ ~Contains(s, Backticks(k + 1))

Max(a, b) == IF a >= b THEN a ELSE b

\* C8: in markdown format the opening fence line is max(3, k+1) backticks
\* and the language tag, the closing fence line is the same number of
\* backticks, k being the longest run of backticks of the content, and the
\* fence occurs neither in the content nor in the text written for it.
C8_FenceLength ==
    (pc = "returned" /\ cli.markdown /\ ~cli.cxml) =>
        LET fence == Backticks(Max(3, LongestRun(arg) + 1))
        IN  /\ WithTag(out, {"fence"}) = <<Line("fence", fence \o Lang(cli.paths[1]))>>
            /\ WithTag(out, {"fence_end"}) = <<Line("fence_end", fence)>>
            /\ ~Contains(arg, fence)
            /\ ~Contains(Processed(arg), fence)

C8_Witness ==
    /\ pc = "returned"
    /\ cli.markdown
    /\ LongestRun(arg) = 4
    /\ Len(arg) = 5
    /\ out[4].text = Backticks(5) \o <<"\n">>

\* the inverse substitutions, in reverse order
Unescape(s) ==
    Replace(Replace(Replace(s, <<"&", "g", "t", ";">>, <<">">>), <<"&", "l", "t", ";">>, <<"<">>), <<"&", "a", "m", "p", ";">>, <<"&">>)

\* C9: un-escaping the content line of a CXML document with the inverse
\* substitutions in reverse order gives back the content that was escaped.
C9_EscapeRoundTrip ==
    (pc = "returned" /\ cli.cxml) =>
        LET written == WithTag(out, {"content"})[1].text
        IN  Unescape(SubSeq(written, 1, Len(written) - 1)) = Processed(arg)

C9_Witness ==
    /\ pc = "returned"
    /\ cli.cxml
    /\ ~cli.line_numbers
    /\ arg = <<"&", "a", "m", "p", ";", "<">>
    /\ WithTag(out, {"content"})[1].text = <<"&", "a", "m", "p", ";", "a", "m", "p", ";", "&", "l", "t", ";", "\n">>

\* C10: with --ignore-files-only and a non-empty --ignore list, a regular
\* file whose name matches a pattern does not pass should_process_entry and
\* no document is written for it.
C10_IgnoredNamesExcluded ==
    (cli.ignore_files_only /\ cli.ignore_patterns # <<>>) =>
        \A i \in 1..Len(walked) :
            (walked[i].ok /\ walked[i].is_file
                /\ NameContainsPattern(walked[i].path, cli.ignore_patterns)) =>
                /\ ~should_process_entry(walked[i], cli)
                /\ \A k \in 1..Len(out) :
                      out[k].tag \in {"path", "source"} =>
                          ~Contains(out[k].text, DisplayPath(walked[i].path))

====
